---- MODULE Spec2Model ----
(***************************************************************************)
(* A model of graphviz2drawio's curve geometry (mx/Curve.py), attribute    *)
(* inheritance (mx/GraphObj.py) and edge reconstruction                    *)
(* (mx/EdgeFactory.py with models/SVG.py).                                 *)
(*                                                                         *)
(* Three specifications share the variables below:                         *)
(*   SpecCurve  - one Curve operation applied to one cubic Bezier          *)
(*   SpecObj    - a GraphObj under a sequence of enrich_from_graph calls   *)
(*   SpecEdge   - EdgeFactory.from_svg applied to one <g> element          *)
(***************************************************************************)
EXTENDS Integers, Sequences, FiniteSets, TLC

VARIABLES
    \* ---- Curve ----
    pts,        \* the four control points of the input, as integer pairs
    curve,      \* the Curve object built from them (its instance attributes)
    op,         \* which operation this run applies: "none" before any
    arg,        \* is_linear: the CubicBezier argument of the current call
    recursions, \* is_linear: recursive calls made so far
    ret,        \* the operation's outcome, Pending until it returns
    tpar,       \* the parameter t given to the operation (0 before any)
    \* ---- GraphObj ----
    obj,        \* self.__dict__: attribute name -> value
    lastAttrs,  \* the attrs argument of the latest enrich_from_graph call
    \* ---- EdgeFactory ----
    g,          \* the <g> element handed to from_svg
    out         \* from_svg's outcome: Pending, a returned Edge, or a raised error

vars == <<pts, curve, op, arg, recursions, ret, tpar, obj, lastAttrs, g, out>>

\* An operation's outcome: not returned yet, a returned value, a raised exception.
Pending == [state |-> "pending"]

Ok(v) == [state |-> "returned", val |-> v]

Raise(type, what) == [state |-> "raised", exc |-> type, what |-> what]

\* An optional value: Python's None, or a value.
NoneVal == [isNone |-> TRUE]

Some(v) == [isNone |-> FALSE, v |-> v]

(***************************************************************************)
(* Python floats.  A float is m * 2^e with m odd (or m = e = 0), so equal  *)
(* floats are equal records.  Every operation rounds its exact result to   *)
(* the nearest float of MantBits significant bits, ties to even, as        *)
(* IEEE 754 does with 53 bits; exponents are unbounded (no overflow or     *)
(* underflow arises from the inputs used here).                            *)
(***************************************************************************)
MantBits == 12

RECURSIVE Pow2(_)
Pow2(n) == IF n <= 0 THEN 1 ELSE 2 * Pow2(n - 1)

Abs(n) == IF n < 0 THEN -n ELSE n

Sign(n) == IF n < 0 THEN -1 ELSE 1

RECURSIVE BitLen(_)
BitLen(n) == IF n = 0 THEN 0 ELSE 1 + BitLen(n \div 2)

RECURSIVE Normalize(_, _)
Normalize(m, e) ==
    IF m = 0 THEN [m |-> 0, e |-> 0]
    ELSE IF m % 2 = 0 THEN Normalize(m \div 2, e + 1)
    ELSE [m |-> m, e |-> e]

\* n * 2^e for n >= 0, rounded to MantBits bits, ties to even.
RoundMag(n, e) ==
    LET len == BitLen(n) IN
    IF len <= MantBits THEN Normalize(n, e)
    ELSE LET s == len - MantBits
             q == n \div Pow2(s)
             r == n % Pow2(s)
             half == Pow2(s - 1)
             up == r > half \/ (r = half /\ q % 2 = 1)
         IN Normalize(IF up THEN q + 1 ELSE q, e + s)

FRound(n, e) ==
    LET mag == RoundMag(Abs(n), e) IN [m |-> Sign(n) * mag.m, e |-> mag.e]

FromInt(i) == FRound(i, 0)

FZero == FromInt(0)

FOne == FromInt(1)

FNeg(a) == [m |-> -a.m, e |-> a.e]

FAbs(a) == [m |-> Abs(a.m), e |-> a.e]

\* The position of a's leading bit.
Top(a) == a.e + BitLen(Abs(a.m))

FAdd(a, b) ==
    IF a.m = 0 THEN b
    ELSE IF b.m = 0 THEN a
    ELSE IF Top(a) - Top(b) > MantBits + 2 THEN a   \* b is below a quarter ulp of a
    ELSE IF Top(b) - Top(a) > MantBits + 2 THEN b
    ELSE LET e0 == IF a.e < b.e THEN a.e ELSE b.e
         IN FRound(a.m * Pow2(a.e - e0) + b.m * Pow2(b.e - e0), e0)

FSub(a, b) == FAdd(a, FNeg(b))

FMul(a, b) == FRound(a.m * b.m, a.e + b.e)

\* a / b for a # 0, b # 0: the quotient to at least MantBits + 2 bits and a sticky
\* bit, rounded.
FDivNonZero(a, b) ==
    LET k == MantBits + 2 + BitLen(Abs(b.m)) - BitLen(Abs(a.m))
        num == Abs(a.m) * Pow2(k)
        q == num \div Abs(b.m)
        sticky == IF num % Abs(b.m) = 0 THEN 0 ELSE 1
    IN FRound(Sign(a.m) * Sign(b.m) * (2 * q + sticky), a.e - b.e - k - 1)

FDiv(a, b) == IF a.m = 0 THEN a ELSE FDivNonZero(a, b)

\* a <= b: rounding a difference never changes its sign.
FLe(a, b) == FSub(a, b).m <= 0

\* A complex number.
Complex(re, im) == [real |-> re, imag |-> im]

\* An integer pair <<x, y>> as a complex number.
ToComplex(p) == Complex(FromInt(p[1]), FromInt(p[2]))

(***************************************************************************)
(* mx/Curve.py                                                             *)
(***************************************************************************)

\* The control points the runs draw from (integer coordinates, all exact floats):
\* three points of a sloped line that crosses y = 0, a horizontal pair on y = 0,
\* vertical pairs on x = 0 and x = 4, and a horizontal segment far from the origin with a
\* point one unit above it.
PointSet ==
    { <<-8, -8>>, <<-5, -6>>, <<4, 0>>, <<0, 0>>,
      <<0, 200>>, <<4, 200>>, <<1, 201>> }

\* t = 0, 1/2, 1.
TSet == { FromInt(0), FDiv(FromInt(1), FromInt(2)), FromInt(1) }

\* svg.path's CubicBezier(start, control1, control2, end).
CubicBezier(p0, p1, p2, p3) ==
    [start |-> p0, control1 |-> p1, control2 |-> p2, end |-> p3]

\* Curve.__init__: the instance attributes it sets.
CurveInit(start, end, is_bezier, points) ==
    [start |-> start, end |-> end, is_bezier |-> is_bezier, points |-> points]

\* math.isclose(a, b, rel_tol=0.01), abs_tol left at its default 0.0.
RelTol == FDiv(FromInt(1), FromInt(100))

AbsTol == FZero

IsClose(a, b) ==
    IF a = b THEN TRUE
    ELSE LET diff == FAbs(FSub(b, a))
         IN \/ FLe(diff, FAbs(FMul(RelTol, b)))
            \/ FLe(diff, FAbs(FMul(RelTol, a)))
            \/ FLe(diff, AbsTol)

\* _line: None for a vertical line, else the function y(x) = m*x + b, kept as (m, b).
Line(start, end) ==
    LET denom == FSub(end.real, start.real) IN
    IF denom = FZero THEN NoneVal
    ELSE LET m == FDiv(FSub(end.imag, start.imag), denom)
             b == FSub(start.imag, FMul(m, start.real))
         IN Some([m |-> m, b |-> b])

\* The closure y returned by _line.
LineY(line, x) == FAdd(FMul(line.m, x), line.b)

\* A rotation that swaps nothing.
RotateBezierUnchanged(cb) == cb

\* _rotate_bezier: real and imaginary parts swapped in all four points.
RotateBezier(cb) ==
    CubicBezier(Complex(cb.start.imag, cb.start.real),
                Complex(cb.control1.imag, cb.control1.real),
                Complex(cb.control2.imag, cb.control2.real),
                Complex(cb.end.imag, cb.end.real))

\* Curve._cb: reads self.cb, an attribute __init__ never sets.
Cb(self, prop) ==
    IF "cb" \in DOMAIN self
    THEN Ok([i \in 1..Len(self.cb) |-> self.cb[i][prop]])
    ELSE Raise("AttributeError", "cb")

\* Curve._cubic_bezier: p is the list _cb built, and the first operand evaluated,
\* p.real, is an attribute a list does not have.
CubicBezierOf(p, t) == Raise("AttributeError", "real")

\* Curve.cubic_bezier_coordinates.
CubicBezierCoordinates(self, t) ==
    LET px == Cb(self, "real") IN
    IF px.state = "raised" THEN px
    ELSE LET x == CubicBezierOf(px.val, t) IN
         IF x.state = "raised" THEN x
         ELSE LET py == Cb(self, "imag") IN
              IF py.state = "raised" THEN py
              ELSE LET y == CubicBezierOf(py.val, t) IN
                   IF y.state = "raised" THEN y
                   ELSE Ok(Complex(x.val, y.val))

\* x ** 2 and x ** 3.
Sq(x) == FMul(x, x)

Cube(x) == FMul(FMul(x, x), x)

FTwo == FromInt(2)

FThree == FromInt(3)

\* Sums are evaluated left to right, as Python does.
Sum3(a, b, c) == FAdd(FAdd(a, b), c)

Sum4(a, b, c, d) == FAdd(FAdd(FAdd(a, b), c), d)

\* One axis of Q1, Q2, Q3 in _lower_cubic_bezier_to_two_quadratics.
LowerQ1(a0, a1, t) ==
    FAdd(FMul(FSub(FOne, t), a0), FMul(t, a1))

LowerQ2(a0, a1, a2, t) ==
    Sum3(FMul(Sq(FSub(FOne, t)), a0),
         FMul(FMul(FMul(FTwo, FSub(FOne, t)), t), a1),
         FMul(Sq(t), a2))

LowerQ3(a0, a1, a2, a3, t) ==
    Sum4(FMul(Cube(FSub(FOne, t)), a0),
         FMul(FMul(FMul(FThree, Sq(FSub(FOne, t))), t), a1),
         FMul(FMul(FMul(FThree, FSub(FOne, t)), Sq(t)), a2),
         FMul(Cube(t), a3))

\* _lower_cubic_bezier_to_two_quadratics: the two lists it returns.
LowerCubicBezierToTwoQuadratics(P0, P1, P2, P3, t) ==
    LET Q0 == P0
        Q1 == Complex(LowerQ1(P0.real, P1.real, t), LowerQ1(P0.imag, P1.imag, t))
        Q2 == Complex(LowerQ2(P0.real, P1.real, P2.real, t),
                      LowerQ2(P0.imag, P1.imag, P2.imag, t))
        Q3 == Complex(LowerQ3(P0.real, P1.real, P2.real, P3.real, t),
                      LowerQ3(P0.imag, P1.imag, P2.imag, P3.imag, t))
    IN << <<Q0, Q1, Q2>>, <<Q2, Q3, P3>> >>

\* The cap on is_linear's recursion depth (the interpreter's recursion limit).
MaxDepth == 3

\* A Curve is built from four control points (a Bezier) or from the two anchors
\* of a straight segment; the CubicBezier handed to is_linear has the same points.
InitCurve ==
    /\ pts \in PointSet \X PointSet \X PointSet \X PointSet
    /\ \E bez \in BOOLEAN :
          curve = CurveInit(ToComplex(pts[1]), ToComplex(pts[4]), bez,
                            IF bez THEN <<ToComplex(pts[1]), ToComplex(pts[2]),
                                          ToComplex(pts[3]), ToComplex(pts[4])>>
                            ELSE <<ToComplex(pts[1]), ToComplex(pts[4])>>)
    /\ arg = CubicBezier(ToComplex(pts[1]), ToComplex(pts[2]),
                         ToComplex(pts[3]), ToComplex(pts[4]))
    /\ op = "none"
    /\ recursions = 0
    /\ ret = Pending
    /\ tpar = FZero
    /\ obj = << >>
    /\ lastAttrs = << >>
    /\ g = NoneVal
    /\ out = Pending

\* One invocation of Curve.is_linear on arg; a recursive call is the next invocation.
IsLinear ==
    /\ op \in {"none", "is_linear"}
    /\ ret = Pending
    /\ op' = "is_linear"
    /\ IF arg.start = arg.end
       THEN /\ ret' = Ok(FALSE)
            /\ UNCHANGED <<arg, recursions>>
       ELSE LET y == Line(arg.start, arg.end) IN
            IF y.isNone
            THEN IF recursions < MaxDepth
                 THEN /\ arg' = RotateBezier(arg)
                      /\ recursions' = recursions + 1
                      /\ UNCHANGED ret
                 ELSE /\ ret' = Raise("RecursionError", "is_linear")
                      /\ UNCHANGED <<arg, recursions>>
            ELSE /\ ret' = Ok(/\ IsClose(LineY(y.v, arg.control1.real), arg.control1.imag)
                              /\ IsClose(LineY(y.v, arg.control2.real), arg.control2.imag))
                 /\ UNCHANGED <<arg, recursions>>
    /\ UNCHANGED <<pts, curve, tpar, obj, lastAttrs, g, out>>

\* curve.cubic_bezier_coordinates(t).
Coordinates ==
    /\ op = "none"
    /\ \E t \in TSet :
          /\ tpar' = t
          /\ ret' = CubicBezierCoordinates(curve, t)
    /\ op' = "coordinates"
    /\ UNCHANGED <<pts, curve, arg, recursions, obj, lastAttrs, g, out>>

\* _lower_cubic_bezier_to_two_quadratics(P0, P1, P2, P3, t) on the input's points.
Lower ==
    /\ op = "none"
    /\ \E t \in TSet :
          /\ tpar' = t
          /\ ret' = Ok(LowerCubicBezierToTwoQuadratics(arg.start, arg.control1,
                                                       arg.control2, arg.end, t))
    /\ op' = "lower"
    /\ UNCHANGED <<pts, curve, arg, recursions, obj, lastAttrs, g, out>>

NextCurve == IsLinear \/ Coordinates \/ Lower

SpecCurve == InitCurve /\ [][NextCurve]_vars

(***************************************************************************)
(* Claims about mx/Curve.py, checked under SpecCurve.                      *)
(***************************************************************************)

\* The input's points, and exact integer geometry on them.
InStart == pts[1]

InControl1 == pts[2]

InControl2 == pts[3]

InEnd == pts[4]

\* Twice the signed area of the triangle (a, b, c): 0 iff c is on the line a-b.
Cross(a, b, c) == (b[1] - a[1]) * (c[2] - a[2]) - (b[2] - a[2]) * (c[1] - a[1])

SqDist(a, b) == (b[1] - a[1]) * (b[1] - a[1]) + (b[2] - a[2]) * (b[2] - a[2])

\* c lies exactly on the straight line through a and b.
OnLine(a, b, c) == Cross(a, b, c) = 0

\* c's distance from the line a-b exceeds 1% of the span |b - a|:
\* |cross| / |b - a| > |b - a| / 100.
OffsetOverOnePercent(a, b, c) == 100 * Abs(Cross(a, b, c)) > SqDist(a, b)

IsLinearReturned == op = "is_linear" /\ ret.state = "returned"

\* C7: is_linear returns false whenever start # end and a control point is offset
\* from the line through start and end by more than 1% of the span, wherever the
\* curve lies.
C7_OffsetIsNonLinear ==
    (/\ IsLinearReturned
     /\ InStart # InEnd
     /\ (OffsetOverOnePercent(InStart, InEnd, InControl1) \/ OffsetOverOnePercent(InStart, InEnd, InControl2)))
    => ret.val = FALSE

\* C8: is_linear returns true whenever start # end and both control points lie
\* exactly on the line through start and end.
C8_OnLineIsLinear ==
    (/\ IsLinearReturned
     /\ InStart # InEnd
     /\ OnLine(InStart, InEnd, InControl1)
     /\ OnLine(InStart, InEnd, InControl2))
    => ret.val = TRUE

\* C9: is_linear raises nothing and recurses at most once: never when start = end
\* (it returns false), once when start # end share their x, and the call it
\* recurses into has endpoints of different x, so it returns.
C9_AtMostOneRecursion ==
    /\ recursions <= 1
    /\ op = "is_linear" =>
          /\ ret.state # "raised"
          /\ InStart = InEnd => (recursions = 0 /\ ret = Ok(FALSE))
          /\ (InStart # InEnd /\ InStart[1] = InEnd[1]) => recursions = 1
          /\ InStart[1] # InEnd[1] => recursions = 0
          /\ ret = Pending => (recursions = 1 /\ arg.start.real # arg.end.real)

\* A vertical curve with distinct endpoints has been classified after one recursion.
C9_Witness == IsLinearReturned /\ recursions = 1 /\ InStart # InEnd /\ InStart[1] = InEnd[1]

\* A Bezier curve has been evaluated.
CoordinatesCalled == op = "coordinates" /\ curve.is_bezier

\* C6: on a Bezier curve cubic_bezier_coordinates raises nothing and returns start
\* at t = 0 and end at t = 1.
C6_EvaluationHitsEndpoints ==
    CoordinatesCalled =>
        /\ ret.state = "returned"
        /\ tpar = FZero => ret.val = curve.start
        /\ tpar = FOne => ret.val = curve.end

\* B(t) = (1-t)^3 P0 + 3(1-t)^2 t P1 + 3(1-t) t^2 P2 + t^3 P3 of the input curve.
BezierPoint(t) ==
    Complex(LowerQ3(arg.start.real, arg.control1.real, arg.control2.real, arg.end.real, t),
            LowerQ3(arg.start.imag, arg.control1.imag, arg.control2.imag, arg.end.imag, t))

\* C10: the subdivision returns two segments of four control points each, the
\* first starting at P0, the second ending at P3, sharing the split point B(t).
C10_LowerSplitsIntoTwoCubics ==
    op = "lower" =>
        LET first == ret.val[1]
            second == ret.val[2]
        IN /\ Len(first) = 4
           /\ Len(second) = 4
           /\ first[1] = arg.start
           /\ second[Len(second)] = arg.end
           /\ first[Len(first)] = second[1]
           /\ second[1] = BezierPoint(tpar)

(***************************************************************************)
(* models/SVG.py and mx/EdgeFactory.py                                     *)
(*                                                                         *)
(* A str is a sequence of one-character strings.  An element is a record   *)
(* [tag, text, attrib]; a <g> also has an id and its children in document  *)
(* order.                                                                  *)
(***************************************************************************)

\* Strings are drawn over this alphabet, up to MaxTitleLen characters.
Alphabet == {"A", "B", ":", "-", ">"}

MaxTitleLen == 4

Arrow == <<"-", ">">>

Dashes == <<"-", "-">>

Colon == <<":">>

Space == <<" ">>

\* str.replace(old, new): every non-overlapping occurrence, scanning from the left.
RECURSIVE Replace(_, _, _)
Replace(str, old, new) ==
    IF Len(str) < Len(old) THEN str
    ELSE IF SubSeq(str, 1, Len(old)) = old
    THEN new \o Replace(SubSeq(str, Len(old) + 1, Len(str)), old, new)
    ELSE <<str[1]>> \o Replace(Tail(str), old, new)

\* str.split(sep): the pieces between non-overlapping occurrences of sep.
RECURSIVE SplitFrom(_, _, _)
SplitFrom(str, sep, piece) ==
    IF Len(str) < Len(sep) THEN <<piece \o str>>
    ELSE IF SubSeq(str, 1, Len(sep)) = sep
    THEN <<piece>> \o SplitFrom(SubSeq(str, Len(sep) + 1, Len(str)), sep, << >>)
    ELSE SplitFrom(Tail(str), sep, Append(piece, str[1]))

Split(str, sep) == SplitFrom(str, sep, << >>)

\* svg_tag / is_tag: the model's tags stand for the namespaced ones.
IsTag(el, tag) == el.tag = tag

\* get_first: the first direct child with the tag, or None.
GetFirst(grp, tag) ==
    LET idx == {i \in 1..Len(grp.children) : IsTag(grp.children[i], tag)} IN
    IF idx = {} THEN NoneVal
    ELSE Some(grp.children[CHOOSE i \in idx : \A j \in idx : i <= j])

\* A title element that yields "" where get_title yields None.
GetTitleEmptyForMissing(grp) ==
    LET title_el == GetFirst(grp, "title") IN
    IF ~title_el.isNone /\ ~title_el.v.text.isNone THEN title_el.v.text
    ELSE Some(<< >>)

\* get_title: the title element's text (None for an empty element), or None.
GetTitle(grp) ==
    LET title_el == GetFirst(grp, "title") IN
    IF ~title_el.isNone THEN title_el.v.text ELSE NoneVal

\* A two-name assignment that keeps the first two pieces of a longer list.
UnpackFirstTwo(pieces) ==
    IF Len(pieces) < 2 THEN Raise("IndexError", pieces)
    ELSE Ok(<<pieces[1], pieces[2]>>)

\* fr, to = <list>: unpacking into two names raises ValueError unless the list has
\* exactly two items.
UnpackTwo(pieces) ==
    IF Len(pieces) # 2 THEN Raise("ValueError", pieces)
    ELSE Ok(<<pieces[1], pieces[2]>>)

\* Text.from_svg: the label of a text element.
TextFromSvg(el) == el.text

\* CurveFactory.from_svg: the Curve parsed from a path's d attribute.
CurveFactoryFromSvg(d) == [parsed_from |-> d]

\* The comprehension [f(x) for x in seq if keep(x)].
RECURSIVE LabelsOf(_)
LabelsOf(children) ==
    IF children = << >> THEN << >>
    ELSE (IF IsTag(Head(children), "text") THEN <<TextFromSvg(Head(children))>> ELSE << >>)
         \o LabelsOf(Tail(children))

\* The curve of from_svg: None unless the first path child has a d attribute.
CurveOf(grp) ==
    LET path == GetFirst(grp, "path") IN
    IF ~path.isNone /\ "d" \in DOMAIN path.v.attrib
    THEN Some(CurveFactoryFromSvg(path.v.attrib["d"]))
    ELSE NoneVal

\* Edge(sid=, fr=, to=, curve=, labels=).
Edge(sid, fr, to, crv, labels) ==
    [sid |-> sid, fr |-> fr, to |-> to, curve |-> crv, labels |-> labels]

\* EdgeFactory.from_svg.
FromSvgResult(grp) ==
    LET title == GetTitle(grp) IN
    IF title.isNone THEN Raise("MissingTitleError", grp)
    ELSE LET pair == UnpackTwo(Split(Replace(title.v, Dashes, Arrow), Arrow)) IN
         IF pair.state = "raised" THEN pair
         ELSE LET fr == Split(pair.val[1], Colon)[1]
                  to == Split(pair.val[2], Colon)[1]
              IN Ok(Edge(grp.id, fr, to, CurveOf(grp), LabelsOf(grp.children)))

\* All strings over Alphabet of length n, and of length at most n.
RECURSIVE StringsOfLen(_)
StringsOfLen(n) ==
    IF n = 0 THEN {<< >>}
    ELSE {Append(str, c) : str \in StringsOfLen(n - 1), c \in Alphabet}

StringsUpTo(n) == UNION {StringsOfLen(k) : k \in 0..n}

\* Titles of the documented shape "<source>[:port] -> <target>[:port]", with "->"
\* or "--" and with or without the spaces around it.
NodeIds == {<<"A">>, <<"B">>, <<"A", "B">>}

Ports == {<< >>, <<":", "w", "e", "s", "t">>, <<":", "e", "a", "s", "t">>}

ShapedTitle(source, port1, gap, sep, target, port2) ==
    source \o port1 \o gap \o sep \o gap \o target \o port2

ShapedTitles ==
    {ShapedTitle(s, p1, gap, sep, t, p2) :
        s \in NodeIds, p1 \in Ports, gap \in {<< >>, Space},
        sep \in {Arrow, Dashes}, t \in NodeIds, p2 \in Ports}

Titles == StringsUpTo(MaxTitleLen) \cup ShapedTitles

Element(tag, text, attrib) == [tag |-> tag, text |-> text, attrib |-> attrib]

NoAttrib == [a \in {} |-> << >>]

\* The children a <g> may have: an optional title (possibly empty), text labels,
\* and an optional path with or without drawing commands.
TitleChildren ==
    {<< >>, <<Element("title", NoneVal, NoAttrib)>>}
    \cup {<<Element("title", Some(t), NoAttrib)>> : t \in Titles}

TextChildren ==
    { << >>,
      <<Element("text", Some(<<"x">>), NoAttrib)>>,
      <<Element("text", Some(<<"x">>), NoAttrib), Element("text", Some(<<"y">>), NoAttrib)>> }

PathChildren ==
    { << >>,
      <<Element("path", NoneVal, NoAttrib)>>,
      <<Element("path", NoneVal, [a \in {"d"} |-> <<"M", "C">>])>> }

InitEdge ==
    /\ \E tc \in TitleChildren, pc \in PathChildren, xc \in TextChildren :
          g = [id |-> "edge1", children |-> tc \o pc \o xc]
    /\ out = Pending
    /\ pts = << >>
    /\ curve = NoneVal
    /\ op = "none"
    /\ arg = NoneVal
    /\ recursions = 0
    /\ ret = Pending
    /\ tpar = FZero
    /\ obj = << >>
    /\ lastAttrs = << >>

\* edge_factory.from_svg(g).
FromSvg ==
    /\ out = Pending
    /\ out' = FromSvgResult(g)
    /\ UNCHANGED <<g, pts, curve, op, arg, recursions, ret, tpar, obj, lastAttrs>>

NextEdge == FromSvg

SpecEdge == InitEdge /\ [][NextEdge]_vars

(***************************************************************************)
(* Claims about EdgeFactory.from_svg, checked under SpecEdge.              *)
(***************************************************************************)

\* The text of g's title element, when it has one with text.
HasTitleChild == \E i \in 1..Len(g.children) : g.children[i].tag = "title"

TitleText ==
    LET i == CHOOSE i \in 1..Len(g.children) : g.children[i].tag = "title"
    IN g.children[i].text

FromSvgDone == out # Pending

\* C1: for a title "<source>[:port] -> <target>[:port]" or with "--", from_svg
\* returns an Edge with fr = source and to = target exactly.
C1_EndpointsAreNodeIds ==
    \A s \in NodeIds, t \in NodeIds, p1 \in Ports, p2 \in Ports, sep \in {Arrow, Dashes} :
        (/\ FromSvgDone
         /\ HasTitleChild
         /\ TitleText = Some(ShapedTitle(s, p1, Space, sep, t, p2)))
        => /\ out.state = "returned"
           /\ out.val.fr = s
           /\ out.val.to = t

\* C2: without a title, from_svg raises MissingTitleError carrying g, whatever
\* else g holds; no Edge is returned.
C2_MissingTitleRaises ==
    (FromSvgDone /\ ~HasTitleChild) => out = Raise("MissingTitleError", g)

C2_Witness ==
    /\ FromSvgDone
    /\ ~HasTitleChild
    /\ \E i \in 1..Len(g.children) : g.children[i].tag = "path"
    /\ \E i \in 1..Len(g.children) : g.children[i].tag = "text"

\* The number of non-overlapping occurrences of "->" in a string.
RECURSIVE CountArrows(_)
CountArrows(str) ==
    IF Len(str) < 2 THEN 0
    ELSE IF str[1] = "-" /\ str[2] = ">" THEN 1 + CountArrows(SubSeq(str, 3, Len(str)))
    ELSE CountArrows(Tail(str))

\* The title, with "--" replaced by "->", holds other than exactly one "->".
MalformedTitle ==
    /\ HasTitleChild
    /\ ~TitleText.isNone
    /\ CountArrows(Replace(TitleText.v, Dashes, Arrow)) # 1

\* C3: a title that does not split into exactly two endpoint tokens makes from_svg
\* raise; it returns no Edge.
C3_MalformedTitleRaises ==
    (FromSvgDone /\ MalformedTitle) => out.state = "raised"

\* A title with two separators has been handed to from_svg.
C3_Witness ==
    /\ FromSvgDone
    /\ MalformedTitle
    /\ CountArrows(Replace(TitleText.v, Dashes, Arrow)) = 2

(***************************************************************************)
(* mx/GraphObj.py                                                          *)
(*                                                                         *)
(* obj is self.__dict__: a function from the names of the attributes the   *)
(* object has to their values, PyNone for None.                            *)
(***************************************************************************)

PyNone == "None"

\* GraphObj.__init__: the instance attributes it sets.
GraphObjInit(sid, gid) == [k \in {"sid", "gid"} |-> IF k = "sid" THEN sid ELSE gid]

\* self.__setattr__(k, v).
SetAttr(d, k, v) == [x \in DOMAIN d \cup {k} |-> IF x = k THEN v ELSE d[x]]

\* The test with its sense inverted: binds only what is already bound.
OwnsNothingBound(d, k) == ~(k \in DOMAIN d /\ d[k] # PyNone)

\* k in self.__dict__ and self.__dict__[k] is not None
Owns(d, k) == k \in DOMAIN d /\ d[k] # PyNone

\* The loop with break in place of continue: it stops at the first owned key.
RECURSIVE EnrichStoppingAtOwned(_, _)
EnrichStoppingAtOwned(d, attrs) ==
    IF attrs = << >> THEN d
    ELSE LET k == Head(attrs)[1]
             v == Head(attrs)[2]
         IN IF Owns(d, k) THEN d
            ELSE EnrichStoppingAtOwned(SetAttr(d, k, v), Tail(attrs))

\* GraphObj.enrich_from_graph: self.__dict__ after the loop over attrs.
RECURSIVE EnrichFromGraph(_, _)
EnrichFromGraph(d, attrs) ==
    IF attrs = << >> THEN d
    ELSE LET k == Head(attrs)[1]
             v == Head(attrs)[2]
         IN IF Owns(d, k) THEN EnrichFromGraph(d, Tail(attrs))
            ELSE EnrichFromGraph(SetAttr(d, k, v), Tail(attrs))

\* The graph-level defaults a call may carry, at most MaxAttrs pairs per call.
AttrPairs ==
    { <<"color", "blue">>, <<"color", "red">>, <<"color", PyNone>>,
      <<"shape", "box">>, <<"sid", "s2">>, <<"gid", "g2">> }

MaxAttrs == 2

RECURSIVE AttrSeqsOfLen(_)
AttrSeqsOfLen(n) ==
    IF n = 0 THEN {<< >>}
    ELSE {Append(a, pr) : a \in AttrSeqsOfLen(n - 1), pr \in AttrPairs}

AttrSeqs == UNION {AttrSeqsOfLen(n) : n \in 0..MaxAttrs}

\* An entity after construction: sid and gid may be None, and its creator may have set
\* color or shape explicitly (to a value or to None).
InitObj ==
    /\ \E sid \in {"s1", PyNone}, gid \in {"g1", PyNone}, color \in {"absent", PyNone, "red"},
          shape \in {"absent", PyNone} :
          LET d0 == GraphObjInit(sid, gid)
              d1 == IF color = "absent" THEN d0 ELSE SetAttr(d0, "color", color)
          IN obj = IF shape = "absent" THEN d1 ELSE SetAttr(d1, "shape", shape)
    /\ lastAttrs = << >>
    /\ g = NoneVal
    /\ out = Pending
    /\ pts = << >>
    /\ curve = NoneVal
    /\ op = "none"
    /\ arg = NoneVal
    /\ recursions = 0
    /\ ret = Pending
    /\ tpar = FZero

\* obj.enrich_from_graph(attrs).
Enrich ==
    /\ \E attrs \in AttrSeqs :
          /\ obj' = EnrichFromGraph(obj, attrs)
          /\ lastAttrs' = attrs
    /\ UNCHANGED <<g, out, pts, curve, op, arg, recursions, ret, tpar>>

NextObj == Enrich

SpecObj == InitObj /\ [][NextObj]_vars

(***************************************************************************)
(* Claims about GraphObj.enrich_from_graph, checked under SpecObj.         *)
(***************************************************************************)

ExampleAttrs == << <<"color", "blue">>, <<"shape", "box">> >>

Has(d, k, v) == k \in DOMAIN d /\ d[k] = v

\* C4: no enrich_from_graph call changes an attribute that holds a non-null value
\* (sid and gid included), and enriching an entity whose color is "red" with
\* [("color","blue"), ("shape","box")] leaves color "red" and shape "box".
C4_NonNullNeverOverwritten ==
    [][/\ \A k \in DOMAIN obj : obj[k] # PyNone => Has(obj', k, obj[k])
       /\ (Has(obj, "color", "red") /\ lastAttrs' = ExampleAttrs)
              => (Has(obj', "color", "red") /\ Has(obj', "shape", "box"))]_vars

C4_Witness ==
    /\ lastAttrs = ExampleAttrs
    /\ Has(obj, "color", "red")
    /\ Has(obj, "shape", "box")

\* Every reordering of a sequence.
Reorderings(attrs) ==
    {[i \in 1..Len(attrs) |-> attrs[f[i]]] : f \in Permutations(1..Len(attrs))}

\* No key of attrs is paired with two different non-null values.
NoConflictingKeys(attrs) ==
    \A i, j \in 1..Len(attrs) :
        (attrs[i][1] = attrs[j][1] /\ attrs[i][2] # PyNone /\ attrs[j][2] # PyNone)
        => attrs[i][2] = attrs[j][2]

\* Applying the call's attrs again changes nothing.
IdempotentStep == EnrichFromGraph(obj', lastAttrs') = obj'

\* C5 as stated: every call is idempotent, and every reordering of its attrs
\* leaves the same attribute map.
C5_IdempotentAndOrderIndependent ==
    [][/\ IdempotentStep
       /\ \A p \in Reorderings(lastAttrs') : EnrichFromGraph(obj, p) = obj']_vars

\* C5 amended: every call is idempotent (also when it repeats the previous call's
\* attrs), and every reordering of its attrs leaves the same attribute map
\* provided no key is paired with two different non-null values.
C5_IdempotentAndOrderIndependentWithoutConflicts ==
    [][/\ IdempotentStep
       /\ lastAttrs' = lastAttrs => obj' = obj
       /\ NoConflictingKeys(lastAttrs')
              => \A p \in Reorderings(lastAttrs') : EnrichFromGraph(obj, p) = obj']_vars

\* A call whose attrs repeat a key, null first, has bound the key.
C5_Witness ==
    /\ lastAttrs = << <<"color", PyNone>>, <<"color", "blue">> >>
    /\ Has(obj, "color", "blue")

====
